---- MODULE Spec2Model ----
(***************************************************************************)
(* Model of scripts/release.py: the build run of the release script.       *)
(* The controller thread (main -> build_release -> run_matrix) loads the   *)
(* language catalog, logs its preamble, clears the log, downloads every    *)
(* edition sequentially and then walks the matrix of dictionary types and  *)
(* sources; the targets of one (dict_ty, source) group are mapped over a   *)
(* ThreadPoolExecutor, and the files of a type are sized when it ends.     *)
(***************************************************************************)
EXTENDS Integers, Sequences, FiniteSets, TLC

\* ---- bounds of the model ----
MaxLangs == 2
MaxJobs == 2
MaxCpus == 2
MaxVerbose == 3

\* ---- inputs ----
Isos == {"en", "el", "simple"}
ExitCodes == {0, 1, 2, 7}

\* class Lang (only the fields run_matrix reads)
Lang == [iso : Isos, has_edition : BOOLEAN]

\* json.load(languages.json), rows mapped by load_lang: any list of records
Catalogs == UNION {[1..n -> Lang] : n \in 0..MaxLangs}

\* a key that a row of languages.json does not have
Absent == "absent"

\* a row of languages.json: iso; language, read like displayName and flag
\* (item[...]); hasEdition, a JSON true or false (item.get)
Row == [iso : Isos \cup {Absent}, language : {"Greek", Absent},
        hasEdition : {"true", "false", Absent}]

\* PM.languages_json: no file, a file that is no JSON, or a list of rows
JsonFiles ==
    {[file |-> f, rows |-> <<>>] : f \in {"missing", "invalid"}}
        \cup {[file |-> "ok", rows |-> rs] :
                 rs \in UNION {[1..n -> Row] : n \in 0..MaxLangs}}

\* the file once build_release has left its with block
Closed == [file |-> "closed", rows |-> <<>>]

\* parse_args: -t/--dictionary-type choices, None when the flag is absent
DtypeChoices == {"None", "main", "ipa", "ipa-merged"}

\* class Args
Args == [verbose : 0..MaxVerbose, dry_run : BOOLEAN, jobs : 1..MaxJobs,
         dtype : DtypeChoices]

\* type DictTy
DictTy == {"main", "ipa", "ipa-merged", "glossary"}

\* the command lines "build [-v...] [-n] [-j jobs] [-t dictionary_type]"
CommandLines == [verbose : 0..MaxVerbose, dry_run : BOOLEAN, jobs : 1..MaxJobs,
                 dictionary_type : {"None"} \cup DictTy]

\* args before parse_args has returned
NoArgs == [verbose |-> 0, dry_run |-> FALSE, jobs |-> 1, dtype |-> "unparsed"]

VARIABLES
    argv,       \* sys.argv: the command line
    languages_json, \* PM.languages_json: the file build_release reads
    langs,      \* build_release: langs (empty before it is assigned)
    args,       \* parse_args: Args
    cpu_count,  \* os.cpu_count()
    pc,         \* position of the controller thread
    err,        \* exception that left run_matrix ("none" while there is none)
    log,        \* content of PM.log (log.txt)
    di,         \* run_download: index of the source being downloaded
    dl,         \* run_download: a download invocation is in flight
    ti,         \* run_matrix: index of the matrix entry being processed
    si,         \* run_matrix: index of the source being processed
    targets,    \* run_matrix: local variable targets ("unbound" before its first assignment)
    futures,    \* executor.map: one future per target
    ci,         \* executor.map: index of the next result the controller takes
    all_logs,   \* run_matrix: all_logs
    completion, \* the indexes of the futures of the group in the order they ended
    started,    \* every subprocess.run of the tool begun so far, in order
    proc,       \* the last subprocess.run of the tool that ended
    files,      \* the names of the files under PM.release
    total_size, \* run_matrix: total_size
    n_dictionaries \* run_matrix: n_dictionaries

vars == <<argv, languages_json, langs, args, cpu_count, pc, err, log, di, dl, ti, si,
          targets, futures, ci, all_logs, completion, started, proc, files,
          total_size, n_dictionaries>>

\* ---- text: a line is a sequence of token codes, compared like str ----
Tokens == <<"--root-dir", "Downloading", "Wrote yomitan dict", "download",
            "el", "en", "glossary", "ipa", "ipa-merged", "main", "parsing",
            "simple", "target/release/kty">>

Code(s) == CHOOSE i \in 1..Len(Tokens) : Tokens[i] = s

BINARY_PATH == "target/release/kty"

Codes(ss) == [i \in 1..Len(ss) |-> Code(ss[i])]

\* str.__lt__ / str.__le__: lexicographic, a proper prefix is smaller
RECURSIVE LexLeq(_, _)
LexLeq(a, b) ==
    IF a = <<>> THEN TRUE
    ELSE IF b = <<>> THEN FALSE
    ELSE IF Head(a) < Head(b) THEN TRUE
    ELSE IF Head(a) > Head(b) THEN FALSE
    ELSE LexLeq(Tail(a), Tail(b))

RECURSIVE Insert(_, _)
Insert(x, s) ==
    IF s = <<>> THEN <<x>>
    ELSE IF LexLeq(x, Head(s)) THEN <<x>> \o s
    ELSE <<Head(s)>> \o Insert(x, Tail(s))

\* variant of sorted: the lines are left in the order they were collected
sorted_unsorted(s) == s

\* sorted(all_logs)
RECURSIVE sorted(_)
sorted(s) == IF s = <<>> THEN <<>> ELSE Insert(Head(s), sorted(Tail(s)))

IsSorted(s) == \A i \in 1..Len(s) - 1 : LexLeq(s[i], s[i + 1])

RECURSIVE Concat(_)
Concat(ss) == IF ss = <<>> THEN <<>> ELSE Head(ss) \o Concat(Tail(ss))

\* ---- log ----
\* One line of log.txt: who wrote it, the label, the fixed part of the
\* message and the variable part (a line of text).
Entry(by, label, msg, raw) == [by |-> by, label |-> label, msg |-> msg, raw |-> raw]

\* log(logline) for each logline
RawEntries(by, lines) == [i \in 1..Len(lines) |-> Entry(by, "", "", lines[i])]


CTRL == "controller"
WORKER == "worker"

\* ---- run_matrix: the plan ----
Min(a, b) == IF a < b THEN a ELSE b

\* variant of n_workers: the host CPU count is not taken into account
n_workers_jobs == args.jobs

n_workers == Min(args.jobs, cpu_count)

isos == [i \in 1..Len(langs) |-> langs[i].iso]

HasEdition(lang) == lang.has_edition

\* variant of with_edition: has_edition is not tested
with_edition_all == [i \in 1..Len(langs) |-> langs[i].iso]

with_edition ==
    LET eds == SelectSeq(langs, HasEdition)
    IN  [i \in 1..Len(eds) |-> eds[i].iso]

NotSimple(iso) == iso # "simple"

isos_no_simple == SelectSeq(isos, NotSimple)

with_edition_no_simple == SelectSeq(with_edition, NotSimple)

DictTypes == <<"main", "ipa", "glossary", "ipa-merged">>

\* variant of sources: every dictionary type builds every edition
sources_editions(dict_ty) == with_edition

\* matrix[k][1]: the sources of a dictionary type
sources(dict_ty) ==
    IF dict_ty = "main" THEN with_edition ELSE with_edition_no_simple

\* variant of target_lambda: main builds every language of the catalog
target_lambda_all(dict_ty, ed) ==
    CASE dict_ty = "main" -> IF ed # "simple" THEN isos ELSE <<"simple">>
      [] dict_ty = "ipa-merged" -> <<"__target">>
      [] OTHER -> isos_no_simple

\* variant of target_lambda: ipa-merged builds one job per language
target_lambda_merged(dict_ty, ed) ==
    CASE dict_ty = "main" -> IF ed # "simple" THEN isos_no_simple ELSE <<"simple">>
      [] OTHER -> isos_no_simple

\* matrix[k][2]: the targets of a source
target_lambda(dict_ty, ed) ==
    CASE dict_ty = "main" -> IF ed # "simple" THEN isos_no_simple ELSE <<"simple">>
      [] dict_ty = "ipa-merged" -> <<"__target">>
      [] OTHER -> isos_no_simple

Selected(dict_ty) == args.dtype = "None" \/ dict_ty = args.dtype

\* the dictionary types of matrix after the args.dtype filter
matrix == SelectSeq(DictTypes, Selected)

\* local variable targets of run_matrix before its first assignment
Unbound == <<>>

\* ---- run_cmd ----
\* variant of worker_params: main and ipa pass the source first
worker_params_swapped(dict_ty, source, target) ==
    CASE dict_ty \in {"main", "ipa"} -> <<source, target>>
      [] dict_ty = "glossary" -> <<source, target>>
      [] dict_ty = "ipa-merged" -> <<source>>

\* worker: params of the job (split on spaces)
worker_params(dict_ty, source, target) ==
    CASE dict_ty \in {"main", "ipa"} -> <<target, source>>
      [] dict_ty = "glossary" -> <<source, target>>
      [] dict_ty = "ipa-merged" -> <<source>>

\* variant of worker_skips: no pair returns before run_cmd
worker_skips_never(dict_ty, source, target) == FALSE

\* worker: the glossary pairs that return before run_cmd
worker_skips(dict_ty, source, target) == dict_ty = "glossary" /\ source = target

\* " ".join(cmd)
cmd(cmd_name, params) == Codes(<<BINARY_PATH, cmd_name>> \o params \o <<"--root-dir">>)

\* variant of ignored: tests the first positional parameter
ignored_first(cmd_name, params) == cmd_name \in {"ipa", "main"} /\ params[1] = "en"

\* the except branch that swallows the CalledProcessError
ignored(cmd_name, params) == cmd_name \in {"ipa", "main"} /\ params[2] = "en"

\* stdout of the tool on exit code 0
ToolStdout(cmd_name, params) ==
    IF cmd_name = "download"
    THEN << <<Code("Downloading"), Code(params[1])>>, <<Code("parsing")>> >>
    ELSE << <<Code("parsing")>>, <<Code("Wrote yomitan dict")>> \o Codes(params) >>

Contains(line, toks) == \E i \in 1..Len(line) : Tokens[line[i]] \in toks

\* variant of retained: without -v the lines are filtered as with -v
retained_default(verbose, out, print_download_status) ==
    CASE verbose \in {0, 1} ->
           Concat([i \in 1..Len(out) |->
               (IF Contains(out[i], {"Wrote yomitan dict"}) THEN <<out[i]>> ELSE <<>>)
               \o (IF print_download_status /\ Contains(out[i], {"Downloading", "download"})
                   THEN <<out[i]>> ELSE <<>>)])
      [] verbose = 2 -> out
      [] OTHER -> <<>>

\* match args.verbose: the lines of stdout that run_cmd returns
retained(verbose, out, print_download_status) ==
    CASE verbose = 1 ->
           Concat([i \in 1..Len(out) |->
               (IF Contains(out[i], {"Wrote yomitan dict"}) THEN <<out[i]>> ELSE <<>>)
               \o (IF print_download_status /\ Contains(out[i], {"Downloading", "download"})
                   THEN <<out[i]>> ELSE <<>>)])
      [] verbose = 2 -> out
      [] OTHER -> <<>>

\* variant of run_cmd: exit codes 1 and 2 are returned as a success
run_cmd_benign12(by, cmd_name, params, returncode, print_download_status) ==
    IF returncode = 0
    THEN [raise |-> FALSE, ret |-> 0, errlog |-> <<>>,
          logs |-> retained(args.verbose, ToolStdout(cmd_name, params),
                            print_download_status)]
    ELSE IF returncode \in {1, 2} \/ ignored(cmd_name, params)
    THEN [raise |-> FALSE, ret |-> 0, errlog |-> <<>>, logs |-> <<>>]
    ELSE [raise |-> TRUE, ret |-> returncode, logs |-> <<>>,
          errlog |-> <<Entry(by, "[err]", "Command failed", cmd(cmd_name, params)),
                       Entry(by, "[err-stdout]", "", <<>>),
                       Entry(by, "[err-stderr]", "", <<>>)>>]

\* variant of run_cmd: the except branch logs and returns instead of raising
run_cmd_noraise(by, cmd_name, params, returncode, print_download_status) ==
    IF returncode = 0
    THEN [raise |-> FALSE, ret |-> 0, errlog |-> <<>>,
          logs |-> retained(args.verbose, ToolStdout(cmd_name, params),
                            print_download_status)]
    ELSE IF ignored(cmd_name, params)
    THEN [raise |-> FALSE, ret |-> 0, errlog |-> <<>>, logs |-> <<>>]
    ELSE [raise |-> FALSE, ret |-> returncode, logs |-> <<>>,
          errlog |-> <<Entry(by, "[err]", "Command failed", cmd(cmd_name, params)),
                       Entry(by, "[err-stdout]", "", <<>>),
                       Entry(by, "[err-stderr]", "", <<>>)>>]

\* run_cmd after subprocess.run ended with returncode: what it returns or
\* raises, and what it writes to the log on the way
run_cmd(by, cmd_name, params, returncode, print_download_status) ==
    IF returncode = 0
    THEN [raise |-> FALSE, ret |-> 0, errlog |-> <<>>,
          logs |-> retained(args.verbose, ToolStdout(cmd_name, params),
                            print_download_status)]
    ELSE IF ignored(cmd_name, params)
    THEN [raise |-> FALSE, ret |-> 0, errlog |-> <<>>, logs |-> <<>>]
    ELSE [raise |-> TRUE, ret |-> returncode, logs |-> <<>>,
          errlog |-> <<Entry(by, "[err]", "Command failed", cmd(cmd_name, params)),
                       Entry(by, "[err-stdout]", "", <<>>),
                       Entry(by, "[err-stderr]", "", <<>>)>>]

\* variant of run_cmd_dry: nothing is returned for the log
run_cmd_dry_silent(cmd_name, params) == <<>>

\* run_cmd with args.dry_run: no subprocess
run_cmd_dry(cmd_name, params) == <<cmd(cmd_name, params)>>

\* what proc holds about a subprocess.run that ended
Ended(cmd_name, params, source, target, returncode, r) ==
    [cmd_name |-> cmd_name, params |-> params, source |-> source,
     target |-> target, returncode |-> returncode, raise |-> r.raise,
     ret |-> r.ret, logs |-> r.logs, errlog |-> r.errlog]

NoProc ==
    [cmd_name |-> "none", params |-> <<>>, source |-> "none", target |-> "none",
     returncode |-> 0, raise |-> FALSE, ret |-> 0, logs |-> <<>>, errlog |-> <<>>]

Invocation(cmd_name, params, source, target) ==
    [cmd_name |-> cmd_name, params |-> params, source |-> source, target |-> target]

NoInvocation == Invocation("none", <<>>, "none", "none")


\* ---- the files under PM.release and their statistics ----
\* A file name is the sequence of its parts between hyphens, the extension
\* with its dot being the last part.
\* the artifact the tool writes for a build job, named as pattern() expects
ArtifactName(dict_ty, source, target) ==
    CASE dict_ty = "main" -> <<"kty", target, source, ".zip">>
      [] dict_ty = "ipa" -> <<"kty", target, source, "ipa", ".zip">>
      [] dict_ty = "ipa-merged" -> <<"kty", source, "ipa", ".zip">>
      [] dict_ty = "glossary" -> <<"kty", source, target, "gloss", ".zip">>

\* the file the tool writes for a download, named as run_download expects
DownloadName(source) == <<source, "extract.jsonl">>

\* what a run of the tool that ended with returncode leaves on disk
ToolWrites(name, returncode) == IF returncode = 0 THEN {name} ELSE {}

\* f.stat().st_size
FileSize(name) == 10 * Len(name)

\* "|".join(xs) inside a group: the alternatives
Alternatives(xs) == {xs[i] : i \in 1..Len(xs)}

\* pattern(): the regular expression, one set of alternatives per part
pattern(dict_ty, srcs, tgts) ==
    CASE dict_ty = "main" ->
           <<{"kty"}, Alternatives(tgts), Alternatives(srcs), {".zip"}>>
      [] dict_ty = "ipa" ->
           <<{"kty"}, Alternatives(tgts), Alternatives(srcs), {"ipa"}, {".zip"}>>
      [] dict_ty = "ipa-merged" ->
           <<{"kty"}, Alternatives(srcs), {"ipa"}, {".zip"}>>
      [] dict_ty = "glossary" ->
           <<{"kty"}, Alternatives(srcs), Alternatives(tgts), {"gloss"}, {".zip"}>>

\* re.match(file_pattern, f.name): anchored at the start only
re_match(file_pattern, name) ==
    /\ Len(name) >= Len(file_pattern)
    /\ \A i \in 1..Len(file_pattern) : name[i] \in file_pattern[i]

\* f.name.endswith(endswith)
endswith(name, suffix) == suffix = "" \/ name[Len(name)] = suffix

\* a / b rounded to the nearest integer
Round(a, b) == (2 * a + b) \div (2 * b)

\* human_size: the number in hundredths (precision = 2) and the unit
human_size(size_bytes) ==
    IF size_bytes < 1024
    THEN [hundredths |-> 100 * size_bytes, unit |-> "B"]
    ELSE IF size_bytes < 1024 * 1024
    THEN [hundredths |-> Round(100 * size_bytes, 1024), unit |-> "KB"]
    ELSE IF size_bytes < 1024 * 1024 * 1024
    THEN [hundredths |-> Round(100 * size_bytes, 1024 * 1024), unit |-> "MB"]
    ELSE [hundredths |-> Round(100 * size_bytes, 1024 * 1024 * 1024), unit |-> "GB"]

\* local variable total_size of run_matrix before its first assignment
NoSize == [hundredths |-> 0, unit |-> "unbound"]

RECURSIVE SumSizes(_)
SumSizes(names) ==
    IF names = {} THEN 0
    ELSE LET f == CHOOSE f \in names : TRUE
         IN  FileSize(f) + SumSizes(names \ {f})

\* stats(odir, file_pattern=..., endswith=...): file_pattern <<>> and
\* endswith "" stand for None
stats(file_pattern, suffix) ==
    LET counted == {f \in files : re_match(file_pattern, f) /\ endswith(f, suffix)}
    IN  [n_files |-> Cardinality(counted), size |-> human_size(SumSizes(counted))]

\* ---- the pool of one group ----
\* st: the state of the future; logs: the lines worker returned; inv: the
\* subprocess.run its thread began (NoInvocation when it began none)
Future(st, logs, inv) == [st |-> st, logs |-> logs, inv |-> inv]

Pending == {i \in 1..Len(futures) : futures[i].st = "pending"}

Running == {i \in 1..Len(futures) : futures[i].st = "running"}

\* the work queue is first in, first out
FirstPending == CHOOSE i \in Pending : \A j \in Pending : i <= j

\* the current group
dict_ty == matrix[ti]

source == sources(dict_ty)[si]

\* ---- initial state ----
PreviousLog == <<Entry("previous run", "ALL", "Finished!", <<>>)>>

Init ==
    /\ argv \in CommandLines
    /\ languages_json \in JsonFiles
    /\ langs = <<>>
    /\ args = NoArgs
    /\ cpu_count \in 1..MaxCpus
    /\ pc = "parse"
    /\ err = "none"
    /\ log \in {<<>>, PreviousLog}
    /\ di = 1
    /\ dl = FALSE
    /\ ti = 1
    /\ si = 1
    /\ targets = Unbound
    /\ futures = <<>>
    /\ ci = 1
    /\ all_logs = <<>>
    /\ completion = <<>>
    /\ started = <<>>
    /\ proc = NoProc
    /\ files = {}
    /\ total_size = NoSize
    /\ n_dictionaries = 0

\* ---- controller: main ----
\* parse_args: argparse exits with status 2 on a -t outside its choices
ParseArgs ==
    /\ pc = "parse"
    /\ IF argv.dictionary_type \in DtypeChoices
       THEN /\ args' = [verbose |-> argv.verbose, dry_run |-> argv.dry_run,
                        jobs |-> argv.jobs, dtype |-> argv.dictionary_type]
            /\ pc' = "load"
            /\ UNCHANGED err
       ELSE /\ pc' = "aborted"
            /\ err' = "SystemExit(2)"
            /\ UNCHANGED args
    /\ UNCHANGED <<argv, languages_json, langs, cpu_count, log, di, dl, ti,
                   si, targets, futures, ci, all_logs, completion, started,
                   proc, files, total_size, n_dictionaries>>

\* ---- controller: build_release ----
\* load_lang
load_lang(item) == [iso |-> item.iso, has_edition |-> item.hasEdition = "true"]

\* variant of LoadError: rows that lack a key are read all the same
LoadError_lenient(f) ==
    CASE f.file = "missing" -> "FileNotFoundError"
      [] f.file = "invalid" -> "JSONDecodeError"
      [] OTHER -> "none"

\* the exception PM.languages_json.open, json.load or load_lang raises
LoadError(f) ==
    CASE f.file = "missing" -> "FileNotFoundError"
      [] f.file = "invalid" -> "JSONDecodeError"
      [] \E i \in 1..Len(f.rows) :
            f.rows[i].iso = Absent \/ f.rows[i].language = Absent -> "KeyError"
      [] OTHER -> "none"

\* build_release up to the call of run_matrix
Load ==
    /\ pc = "load"
    /\ IF LoadError(languages_json) # "none"
       THEN /\ pc' = "aborted"
            /\ err' = LoadError(languages_json)
            /\ UNCHANGED langs
       ELSE /\ langs' = [i \in 1..Len(languages_json.rows) |->
                            load_lang(languages_json.rows[i])]
            /\ pc' = "start"
            /\ UNCHANGED err
    /\ languages_json' = Closed
    /\ UNCHANGED <<argv, args, cpu_count, log, di, dl, ti, si, targets,
                   futures, ci, all_logs, completion, started, proc, files,
                   total_size, n_dictionaries>>

\* ---- controller: run_matrix up to the download pre-pass ----
\* run_matrix: the lines logged before the log is cleared
Preamble ==
    /\ pc = "start"
    /\ log' = log \o <<Entry(CTRL, "info", "n_workers", <<>>),
                       Entry(CTRL, "info", "args", <<>>),
                       Entry(CTRL, "info", "previous files", <<>>),
                       Entry(CTRL, "info", "previous zip files", <<>>),
                       Entry(CTRL, "", "", <<>>)>>
    /\ pc' = "clear"
    /\ UNCHANGED <<argv, languages_json, langs, args, cpu_count, files,
                   total_size, n_dictionaries, err, di, dl, ti, si, targets,
                   futures, ci, all_logs, completion, started, proc>>

\* variant of ClearLog: the file is left as it is
ClearLog_keep ==
    /\ pc = "clear"
    /\ log' = log
    /\ pc' = "prelude"
    /\ UNCHANGED <<argv, languages_json, langs, args, cpu_count, files,
                   total_size, n_dictionaries, err, di, dl, ti, si, targets,
                   futures, ci, all_logs, completion, started, proc>>

\* run_matrix: PM.log.open("w")
ClearLog ==
    /\ pc = "clear"
    /\ log' = <<>>
    /\ pc' = "prelude"
    /\ UNCHANGED <<argv, languages_json, langs, args, cpu_count, files,
                   total_size, n_dictionaries, err, di, dl, ti, si, targets,
                   futures, ci, all_logs, completion, started, proc>>

SingleLines(ss) == [i \in 1..Len(ss) |-> <<Code(ss[i])>>]

\* run_prelude, the plan and the head of run_download
Plan ==
    /\ pc = "prelude"
    /\ log' = log \o <<Entry(CTRL, "prelude", "Building Rust binary...", <<>>),
                       Entry(CTRL, "prelude", "binary_version", <<>>),
                       Entry(CTRL, "prelude", "dic", <<>>),
                       Entry(CTRL, "", "", <<>>),
                       Entry(CTRL, "ALL", "Editions", Concat(sorted(SingleLines(with_edition)))),
                       Entry(CTRL, "ALL", "Languages", Concat(sorted(SingleLines(isos)))),
                       Entry(CTRL, "ALL", "Dictionaries", Codes(matrix)),
                       Entry(CTRL, "", "", <<>>),
                       Entry(CTRL, "dl", "Downloading editions...", <<>>),
                       Entry(CTRL, "dl", "previous files", <<>>)>>
    /\ di' = 1
    /\ pc' = "download"
    /\ UNCHANGED <<argv, languages_json, langs, args, cpu_count, files,
                   total_size, n_dictionaries, err, dl, ti, si, targets,
                   futures, ci, all_logs, completion, started, proc>>

\* ---- controller: run_download ----
DownloadParams(s) == <<s, s>>

FinishedDownload(s) == Entry(CTRL, "dl", "Finished download", <<Code(s)>>)

\* run_download: run_cmd(odir, "download", params, ...) up to subprocess.run
DownloadStart ==
    /\ pc = "download"
    /\ di <= Len(with_edition)
    /\ ~dl
    /\ LET s == with_edition[di]
       IN  IF args.dry_run
           THEN /\ log' = log \o RawEntries(CTRL, run_cmd_dry("download", DownloadParams(s)))
                              \o <<FinishedDownload(s)>>
                /\ di' = di + 1
                /\ UNCHANGED <<dl, started>>
           ELSE /\ dl' = TRUE
                /\ started' = Append(started, Invocation("download", DownloadParams(s), s, s))
                /\ UNCHANGED <<log, di>>
    /\ UNCHANGED <<argv, languages_json, langs, args, cpu_count, files,
                   total_size, n_dictionaries, pc, err, ti, si, targets,
                   futures, ci, all_logs, completion, proc>>

\* variant of DownloadFinish: a failed download is logged and the loop goes on
DownloadFinish_besteffort ==
    /\ pc = "download"
    /\ dl
    /\ \E returncode \in ExitCodes :
         LET s == with_edition[di]
             r == run_cmd(CTRL, "download", DownloadParams(s), returncode, TRUE)
         IN  /\ proc' = Ended("download", DownloadParams(s), s, s, returncode, r)
             /\ dl' = FALSE
             /\ files' = files \cup ToolWrites(DownloadName(s), returncode)
             /\ log' = log \o r.errlog \o RawEntries(CTRL, r.logs) \o <<FinishedDownload(s)>>
             /\ di' = di + 1
             /\ UNCHANGED <<pc, err>>
    /\ UNCHANGED <<argv, languages_json, langs, args, cpu_count, total_size,
                   n_dictionaries, ti, si, targets, futures, ci, all_logs,
                   completion, started>>

\* run_download: subprocess.run ends, the rest of run_cmd and of the loop body
DownloadFinish ==
    /\ pc = "download"
    /\ dl
    /\ \E returncode \in ExitCodes :
         LET s == with_edition[di]
             r == run_cmd(CTRL, "download", DownloadParams(s), returncode, TRUE)
         IN  /\ proc' = Ended("download", DownloadParams(s), s, s, returncode, r)
             /\ dl' = FALSE
             /\ files' = files \cup ToolWrites(DownloadName(s), returncode)
             /\ IF r.raise
                THEN /\ log' = log \o r.errlog
                     /\ pc' = "aborted"
                     /\ err' = "CalledProcessError"
                     /\ UNCHANGED di
                ELSE /\ log' = log \o RawEntries(CTRL, r.logs) \o <<FinishedDownload(s)>>
                     /\ di' = di + 1
                     /\ UNCHANGED <<pc, err>>
    /\ UNCHANGED <<argv, languages_json, langs, args, cpu_count, total_size,
                   n_dictionaries, ti, si, targets, futures, ci, all_logs,
                   completion, started>>

\* variant of DownloadsDone: the loop is left before its last source
DownloadsDone_early ==
    /\ pc = "download"
    /\ ~dl
    /\ log' = log \o <<Entry(CTRL, "dl", "Finished downloads", <<>>),
                       Entry(CTRL, "ALL", "Starting...", <<>>)>>
    /\ ti' = 1
    /\ pc' = "type"
    /\ UNCHANGED <<argv, languages_json, langs, args, cpu_count, files,
                   total_size, n_dictionaries, err, di, dl, si, targets,
                   futures, ci, all_logs, completion, started, proc>>

\* run_download: after the loop; run_matrix: log("ALL", "Starting...")
DownloadsDone ==
    /\ pc = "download"
    /\ di > Len(with_edition)
    /\ ~dl
    /\ log' = log \o <<Entry(CTRL, "dl", "Finished downloads", <<>>),
                       Entry(CTRL, "ALL", "Starting...", <<>>)>>
    /\ ti' = 1
    /\ pc' = "type"
    /\ UNCHANGED <<argv, languages_json, langs, args, cpu_count, files,
                   total_size, n_dictionaries, err, di, dl, si, targets,
                   futures, ci, all_logs, completion, started, proc>>


\* ---- controller: the matrix loop ----
\* for dict_ty, sources, target_lambda in matrix: the head of the body
BeginType ==
    /\ pc = "type"
    /\ ti <= Len(matrix)
    /\ log' = Append(log, Entry(CTRL, dict_ty, "Making dictionaries...", <<>>))
    /\ si' = 1
    /\ pc' = "source"
    /\ UNCHANGED <<argv, languages_json, langs, args, cpu_count, files,
                   total_size, n_dictionaries, err, di, dl, ti, targets,
                   futures, ci, all_logs, completion, started, proc>>

\* for source in sources: up to executor.map, which submits every target
BeginGroup ==
    /\ pc = "source"
    /\ si <= Len(sources(dict_ty))
    /\ targets' = target_lambda(dict_ty, source)
    /\ all_logs' = <<>>
    /\ completion' = <<>>
    /\ futures' = [i \in 1..Len(targets') |-> Future("pending", <<>>, NoInvocation)]
    /\ ci' = 1
    /\ pc' = "map"
    /\ UNCHANGED <<argv, languages_json, langs, args, cpu_count, files,
                   total_size, n_dictionaries, err, log, di, dl, ti, si,
                   started, proc>>

\* variant of WorkerStart: every work item runs the first target
WorkerStart_first ==
    /\ pc \in {"map", "shutdown"}
    /\ Pending # {}
    /\ Cardinality(Running) < n_workers
    /\ LET i == FirstPending
           target == targets[1]
       IN  IF worker_skips(dict_ty, source, target)
           THEN /\ futures' = [futures EXCEPT ![i] = Future("done", <<>>, NoInvocation)]
                /\ completion' = Append(completion, i)
                /\ UNCHANGED started
           ELSE IF args.dry_run
           THEN /\ futures' = [futures EXCEPT ![i] =
                       Future("done", run_cmd_dry(dict_ty, worker_params(dict_ty, source, target)),
                              NoInvocation)]
                /\ completion' = Append(completion, i)
                /\ UNCHANGED started
           ELSE LET inv == Invocation(dict_ty, worker_params(dict_ty, source, target),
                                      source, target)
                IN  /\ futures' = [futures EXCEPT ![i] = Future("running", <<>>, inv)]
                    /\ started' = Append(started, inv)
                    /\ UNCHANGED completion
    /\ UNCHANGED <<argv, languages_json, langs, args, cpu_count, files,
                   total_size, n_dictionaries, pc, err, log, di, dl, ti, si,
                   targets, ci, all_logs, proc>>

\* variant of WorkerStart: the pool has one thread less than max_workers
WorkerStart_starved ==
    /\ pc \in {"map", "shutdown"}
    /\ Pending # {}
    /\ Cardinality(Running) < n_workers - 1
    /\ LET i == FirstPending
           target == targets[i]
       IN  IF worker_skips(dict_ty, source, target)
           THEN /\ futures' = [futures EXCEPT ![i] = Future("done", <<>>, NoInvocation)]
                /\ completion' = Append(completion, i)
                /\ UNCHANGED started
           ELSE IF args.dry_run
           THEN /\ futures' = [futures EXCEPT ![i] =
                       Future("done", run_cmd_dry(dict_ty, worker_params(dict_ty, source, target)),
                              NoInvocation)]
                /\ completion' = Append(completion, i)
                /\ UNCHANGED started
           ELSE LET inv == Invocation(dict_ty, worker_params(dict_ty, source, target),
                                      source, target)
                IN  /\ futures' = [futures EXCEPT ![i] = Future("running", <<>>, inv)]
                    /\ started' = Append(started, inv)
                    /\ UNCHANGED completion
    /\ UNCHANGED <<argv, languages_json, langs, args, cpu_count, files,
                   total_size, n_dictionaries, pc, err, log, di, dl, ti, si,
                   targets, ci, all_logs, proc>>

\* a pool thread takes the next work item and runs worker(target) up to
\* subprocess.run, or to its return when there is no subprocess
WorkerStart ==
    /\ pc \in {"map", "shutdown"}
    /\ Pending # {}
    /\ Cardinality(Running) < n_workers
    /\ LET i == FirstPending
           target == targets[i]
       IN  IF worker_skips(dict_ty, source, target)
           THEN /\ futures' = [futures EXCEPT ![i] = Future("done", <<>>, NoInvocation)]
                /\ completion' = Append(completion, i)
                /\ UNCHANGED started
           ELSE IF args.dry_run
           THEN /\ futures' = [futures EXCEPT ![i] =
                       Future("done", run_cmd_dry(dict_ty, worker_params(dict_ty, source, target)),
                              NoInvocation)]
                /\ completion' = Append(completion, i)
                /\ UNCHANGED started
           ELSE LET inv == Invocation(dict_ty, worker_params(dict_ty, source, target),
                                      source, target)
                IN  /\ futures' = [futures EXCEPT ![i] = Future("running", <<>>, inv)]
                    /\ started' = Append(started, inv)
                    /\ UNCHANGED completion
    /\ UNCHANGED <<argv, languages_json, langs, args, cpu_count, files,
                   total_size, n_dictionaries, pc, err, log, di, dl, ti, si,
                   targets, ci, all_logs, proc>>

\* subprocess.run of a pool thread ends: the rest of run_cmd in that thread
WorkerFinish ==
    /\ pc \in {"map", "shutdown"}
    /\ \E i \in Running, returncode \in ExitCodes :
         LET target == targets[i]
             params == worker_params(dict_ty, source, target)
             r == run_cmd(WORKER, dict_ty, params, returncode, FALSE)
         IN  /\ proc' = Ended(dict_ty, params, source, target, returncode, r)
             /\ completion' = Append(completion, i)
             /\ log' = log \o r.errlog
             /\ files' = files \cup ToolWrites(ArtifactName(dict_ty, source, target),
                                               returncode)
             /\ futures' = [futures EXCEPT ![i] =
                    IF r.raise THEN Future("failed", <<>>, futures[i].inv)
                    ELSE Future("done", r.logs, futures[i].inv)]
    /\ UNCHANGED <<argv, languages_json, langs, args, cpu_count, total_size,
                   n_dictionaries, pc, err, di, dl, ti, si, targets, ci,
                   all_logs, started>>

\* variant of Cancelled: the futures not yet taken stay in the queue
Cancelled_none(fs) == fs

\* result_iterator's finally: future.cancel() for the futures not yet taken
Cancelled(fs) ==
    [i \in 1..Len(fs) |-> IF fs[i].st = "pending" THEN Future("cancelled", <<>>, NoInvocation)
                          ELSE fs[i]]

\* variant of Collect: the lines of a result are logged when it is taken
Collect_logs ==
    /\ pc = "map"
    /\ ci <= Len(futures)
    /\ futures[ci].st \in {"done", "failed"}
    /\ IF futures[ci].st = "done"
       THEN /\ log' = log \o RawEntries(CTRL, futures[ci].logs)
            /\ ci' = ci + 1
            /\ UNCHANGED <<pc, err, futures>>
       ELSE /\ futures' = Cancelled(futures)
            /\ pc' = "shutdown"
            /\ err' = "CalledProcessError"
            /\ UNCHANGED <<log, ci>>
    /\ UNCHANGED <<argv, languages_json, langs, args, cpu_count, files,
                   total_size, n_dictionaries, all_logs, di, dl, ti, si,
                   targets, completion, started, proc>>

\* for _, logs in executor.map(worker, targets): the next result, in the
\* order of targets
Collect ==
    /\ pc = "map"
    /\ ci <= Len(futures)
    /\ futures[ci].st \in {"done", "failed"}
    /\ IF futures[ci].st = "done"
       THEN /\ all_logs' = all_logs \o futures[ci].logs
            /\ ci' = ci + 1
            /\ UNCHANGED <<pc, err, futures>>
       ELSE /\ futures' = Cancelled(futures)
            /\ pc' = "shutdown"
            /\ err' = "CalledProcessError"
            /\ UNCHANGED <<all_logs, ci>>
    /\ UNCHANGED <<argv, languages_json, langs, args, cpu_count, files,
                   total_size, n_dictionaries, log, di, dl, ti, si, targets,
                   completion, started, proc>>

\* ThreadPoolExecutor.__exit__ on the way out with the exception:
\* shutdown(wait=True) returns when no thread is running
Shutdown ==
    /\ pc = "shutdown"
    /\ Running = {}
    /\ pc' = "aborted"
    /\ UNCHANGED <<argv, languages_json, langs, args, cpu_count, files,
                   total_size, n_dictionaries, err, log, di, dl, ti, si,
                   targets, futures, ci, all_logs, completion, started,
                   proc>>

\* the sorted lines of the group and its "Finished dict" line
GroupLines(lines, src, ty) ==
    RawEntries(CTRL, sorted(lines))
    \o <<Entry(CTRL, ty, "Finished dict", <<Code(src)>>)>>

\* variant of EndGroup: the results are not awaited (no with block, no
\* iteration over the results)
EndGroup_nowait ==
    /\ pc = "map"
    /\ log' = log \o GroupLines(all_logs, source, dict_ty)
    /\ si' = si + 1
    /\ pc' = "source"
    /\ UNCHANGED <<argv, languages_json, langs, args, cpu_count, files,
                   total_size, n_dictionaries, err, di, dl, ti, targets,
                   futures, ci, all_logs, completion, started, proc>>

\* after the with block: for logline in sorted(all_logs): log(logline)
EndGroup ==
    /\ pc = "map"
    /\ ci > Len(futures)
    /\ log' = log \o GroupLines(all_logs, source, dict_ty)
    /\ si' = si + 1
    /\ pc' = "source"
    /\ UNCHANGED <<argv, languages_json, langs, args, cpu_count, files,
                   total_size, n_dictionaries, err, di, dl, ti, targets,
                   futures, ci, all_logs, completion, started, proc>>

\* after the loop over sources: pattern(dict_ty, sources, targets), stats
EndType ==
    /\ pc = "source"
    /\ si > Len(sources(dict_ty))
    /\ IF targets = Unbound
       THEN /\ pc' = "aborted"
            /\ err' = "UnboundLocalError"
            /\ UNCHANGED <<log, ti, total_size>>
       ELSE /\ total_size' = stats(pattern(dict_ty, sources(dict_ty), targets), "").size
            /\ log' = Append(log, Entry(CTRL, dict_ty, "Finished dicts", <<>>))
            /\ ti' = ti + 1
            /\ pc' = "type"
            /\ UNCHANGED err
    /\ UNCHANGED <<argv, languages_json, langs, args, cpu_count, files,
                   n_dictionaries, di, dl, si, targets, futures, ci,
                   all_logs, completion, started, proc>>

\* after the loop over matrix: the final statistics
FinishMatrix ==
    /\ pc = "type"
    /\ ti > Len(matrix)
    /\ n_dictionaries' = stats(<<>>, ".zip").n_files
    /\ total_size' = stats(<<>>, ".zip").size
    /\ log' = Append(log, Entry(CTRL, "ALL", "Finished!", <<>>))
    /\ pc' = "indexes"
    /\ UNCHANGED <<argv, languages_json, langs, args, cpu_count, files, err,
                   di, dl, ti, si, targets, futures, ci, all_logs,
                   completion, started, proc>>

\* the files under PM.dictionary: the artifacts of the build jobs
InDictionary(name) == name[1] = "kty"

\* main: extract_indexes() after build_release returned; check_dict_dir
\* exits when PM.dictionary holds nothing
ExtractIndexes ==
    /\ pc = "indexes"
    /\ IF \E f \in files : InDictionary(f)
       THEN /\ log' = log \o <<Entry(CTRL, "index", "Extracting indexes...", <<>>),
                               Entry(CTRL, "index", "Extracted", <<>>)>>
            /\ UNCHANGED err
       ELSE /\ err' = "SystemExit(1)"
            /\ UNCHANGED log
    /\ pc' = "exit"
    /\ UNCHANGED <<argv, languages_json, langs, args, cpu_count, files,
                   total_size, n_dictionaries, di, dl, ti, si, targets,
                   futures, ci, all_logs, completion, started, proc>>

Next ==
    \/ ParseArgs
    \/ Load
    \/ Preamble
    \/ ClearLog
    \/ Plan
    \/ DownloadStart
    \/ DownloadFinish
    \/ DownloadsDone
    \/ BeginType
    \/ BeginGroup
    \/ WorkerStart
    \/ WorkerFinish
    \/ Collect
    \/ Shutdown
    \/ EndGroup
    \/ EndType
    \/ FinishMatrix
    \/ ExtractIndexes

Spec == Init /\ [][Next]_vars

\* the steps of the controller thread
Controller ==
    \/ ParseArgs
    \/ Load
    \/ Preamble
    \/ ClearLog
    \/ Plan
    \/ DownloadStart
    \/ DownloadsDone
    \/ BeginType
    \/ BeginGroup
    \/ Collect
    \/ Shutdown
    \/ EndGroup
    \/ EndType
    \/ FinishMatrix
    \/ ExtractIndexes

\* the runs with the default verbosity and a fresh log on a host with
\* MaxCpus CPUs: neither the verbosity nor the previous log changes a step
LiveInit ==
    /\ Init
    /\ argv.verbose = 0
    /\ cpu_count = MaxCpus
    /\ log = <<>>

\* The controller thread runs on while it can, an idle pool thread takes
\* the next work item, and every run of the tool ends.
LiveSpec ==
    /\ LiveInit
    /\ [][Next]_vars
    /\ WF_vars(Controller)
    /\ WF_vars(WorkerStart)
    /\ WF_vars(WorkerFinish \/ DownloadFinish)


\* ======================================================================
\* Properties
\* ======================================================================
BuildTypes == {"main", "ipa", "glossary", "ipa-merged"}

Failed == {i \in 1..Len(futures) : futures[i].st = "failed"}

\* the lines of es are in the log, contiguous and in order
Logged(es) == \E k \in 0..Len(log) - Len(es) : SubSeq(log, k + 1, k + Len(es)) = es

ErrEntries(by, p) ==
    <<Entry(by, "[err]", "Command failed", cmd(p.cmd_name, p.params)),
      Entry(by, "[err-stdout]", "", <<>>),
      Entry(by, "[err-stderr]", "", <<>>)>>

EnglishCase(p) == p.cmd_name \in {"main", "ipa"} /\ p.params[2] = "en"

\* C1 (as stated): a build job whose tool exits with code 1 or 2 is
\* recorded as a success: run_cmd does not raise and writes no [err] line.
C1_Original ==
    (proc.cmd_name \in BuildTypes /\ proc.returncode \in {1, 2})
        => (~proc.raise /\ proc.errlog = <<>>)

\* C1 (amended): a build job whose tool exits with code 1 or 2 is handled
\* like any other nonzero exit code: it is a success with no lines and no
\* log write only for a main or ipa job whose second positional parameter
\* is "en"; for every other job run_cmd writes the three [err] lines to the
\* log and raises, and the controller never gets past that group.
C1_ExitOneTwo ==
    (proc.cmd_name \in BuildTypes /\ proc.returncode \in {1, 2})
        => IF EnglishCase(proc)
           THEN ~proc.raise /\ proc.ret = 0 /\ proc.logs = <<>> /\ proc.errlog = <<>>
           ELSE /\ proc.raise
                /\ proc.errlog = ErrEntries(WORKER, proc)
                /\ Logged(proc.errlog)
                /\ pc \in {"map", "shutdown", "aborted"}
                /\ Failed # {}

C1_Witness ==
    /\ proc.cmd_name = "ipa" /\ proc.source = "el" /\ proc.target = "en"
    /\ proc.returncode = 1
    /\ proc.raise
    /\ pc = "aborted"

\* C2: for a main or ipa job whose second positional parameter is "en",
\* every nonzero exit code is benign: run_cmd returns (0, no lines), writes
\* nothing to the log and the future of the job does not fail; whether
\* run_cmd raises is decided by (cmd_name, params, returncode) alone.
C2_EnglishBenign ==
    /\ (proc.cmd_name \in {"main", "ipa"} /\ proc.params[2] = "en" /\ proc.returncode # 0)
         => (~proc.raise /\ proc.ret = 0 /\ proc.logs = <<>> /\ proc.errlog = <<>>)
    /\ proc.cmd_name # "none"
         => (proc.raise <=> (proc.returncode # 0 /\ ~EnglishCase(proc)))
    /\ \A i \in 1..Len(futures) :
         (futures[i].inv.cmd_name \in {"main", "ipa"} /\ futures[i].inv.params[2] = "en")
             => futures[i].st # "failed"

C2_Witness ==
    /\ proc.cmd_name = "main" /\ proc.params = <<"el", "en">>
    /\ proc.returncode = 7
    /\ ~proc.raise
    /\ pc = "exit"

\* C3: a build job whose tool exits with a nonzero code other than 1 and 2
\* and that is not the English case makes run_cmd write the failed command,
\* the stdout and the stderr to the log and raise; once a future has
\* failed the controller stays in the group of the failure (it takes no
\* result after the failed one), so no later group, no later dictionary
\* type, no final statistics and no index extraction happen.
C3_FatalAborts ==
    /\ (proc.cmd_name \in BuildTypes /\ proc.returncode \notin {0, 1, 2} /\ ~EnglishCase(proc))
         => /\ proc.raise
            /\ proc.errlog = ErrEntries(WORKER, proc)
            /\ Logged(proc.errlog)
            /\ Failed # {}
    /\ Failed # {}
         => /\ pc \in {"map", "shutdown", "aborted"}
            /\ \A i \in Failed : ci <= i /\ Logged(ErrEntries(WORKER, futures[i].inv))
            /\ \A k \in 1..Len(log) :
                 ~(log[k].by = CTRL /\ log[k].msg \in {"Finished!", "Extracting indexes..."})
    /\ err = "CalledProcessError" /\ di > Len(with_edition)
         => \E i \in Failed : ci = i

C3_Witness ==
    /\ proc.cmd_name = "glossary"
    /\ proc.returncode = 7
    /\ proc.raise
    /\ pc = "aborted"
    /\ ti < Len(matrix)


\* C4 (as stated): from the moment a job of the group has ended with a
\* fatal exit code, no further invocation of the tool is started.
C4_Original == [][Failed # {} => started' = started]_vars

\* C4 (amended): once the controller has taken the failed result it has
\* cancelled every target that had not started, and from then on no
\* invocation of the tool is started; an invocation started after a job
\* failed is started while the controller still waits in executor.map, and
\* it is a target of the same group that had been submitted before.
C4_FailFast ==
    /\ [](pc \in {"shutdown", "aborted"} => Pending = {})
    /\ [][(pc \in {"shutdown", "aborted"}) => (started' = started)]_vars
    /\ [][(Failed # {} /\ started' # started)
            => /\ pc = "map" /\ pc' = "map"
               /\ \A i \in Failed : ci <= i
               /\ \E j \in Pending :
                    /\ futures'[j].st = "running"
                    /\ started' = Append(started, futures'[j].inv)
                    /\ futures'[j].inv.cmd_name = dict_ty
                    /\ futures'[j].inv.source = source]_vars

C4_Witness ==
    /\ pc = "aborted"
    /\ Failed # {}
    /\ \E i \in 1..Len(futures) : futures[i].st = "cancelled"

IsDownload(inv) == inv.cmd_name = "download"

Downloads == SelectSeq(started, IsDownload)

\* C5 (as stated): a failed download is logged and the pre-pass goes on
\* with the remaining sources; the run is not aborted by it.
C5_Original ==
    (proc.cmd_name = "download" /\ proc.returncode # 0)
        => (err = "none" /\ pc # "aborted")

\* C5 (amended): a failed download (any nonzero exit code) is logged with
\* the three [err] lines by the controller and the exception leaves
\* run_download: the run is aborted, the failed download is the last
\* invocation of the run and the remaining sources are not downloaded.
C5_DownloadFailureAborts ==
    (proc.cmd_name = "download" /\ proc.returncode # 0)
        => /\ proc.raise
           /\ proc.errlog = ErrEntries(CTRL, proc)
           /\ Len(log) >= 3 /\ SubSeq(log, Len(log) - 2, Len(log)) = proc.errlog
           /\ pc = "aborted" /\ err = "CalledProcessError"
           /\ ~dl
           /\ started # <<>> /\ started[Len(started)].cmd_name = "download"
           /\ started[Len(started)].source = proc.source
           /\ Len(Downloads) = di /\ Len(started) = di

C5_Witness ==
    /\ proc.cmd_name = "download" /\ proc.returncode = 7
    /\ pc = "aborted"
    /\ di < Len(with_edition)

\* C6: a build invocation is started only after the download pre-pass has
\* ended: when started holds a build invocation, every edition source has
\* been downloaded and no download is in flight, every download precedes
\* every build invocation, and the download of the source of a build
\* invocation precedes it.
C6_DownloadsFirst ==
    /\ \A j \in 1..Len(started) :
         started[j].cmd_name # "download"
             => /\ di > Len(with_edition) /\ ~dl
                /\ pc \notin {"start", "clear", "prelude", "download"}
                /\ \A i \in 1..Len(started) : started[i].cmd_name = "download" => i < j
                /\ \E i \in 1..(j - 1) :
                     /\ started[i].cmd_name = "download"
                     /\ started[i].source = started[j].source
    /\ Running # {} => (~dl /\ di > Len(with_edition))

C6_Witness ==
    /\ Running # {}
    /\ Len(Downloads) = 2
    /\ Len(started) > 2


\* the catalog records with has_edition, in catalog order
EditionRecords == SelectSeq(langs, HasEdition)

\* the download invocation of each of them
ExpectedDownloads ==
    [k \in 1..Len(EditionRecords) |->
        Invocation("download", <<EditionRecords[k].iso, EditionRecords[k].iso>>,
                   EditionRecords[k].iso, EditionRecords[k].iso)]

IsPrefix(a, b) == Len(a) <= Len(b) /\ SubSeq(b, 1, Len(a)) = a

PrepassEnded == pc \notin {"start", "clear", "prelude", "download"}

InFlight == (IF dl THEN 1 ELSE 0) + Cardinality(Running)

C9_GroupsSequential ==
    /\ pc \notin {"map", "shutdown"} => Running = {}
    /\ \A i \in Running :
         /\ futures[i].inv.cmd_name = dict_ty
         /\ futures[i].inv.source = source
         /\ futures[i].inv.target = targets[i]
    /\ \A i, j \in Running :
         /\ futures[i].inv.cmd_name = futures[j].inv.cmd_name
         /\ futures[i].inv.source = futures[j].inv.source
    /\ dl => Running = {}

C9_Witness ==
    /\ Cardinality(Running) = 2
    /\ ti = 2
    /\ si = 2

\* the lines of the jobs of the group in the order the jobs ended
ByCompletion == Concat([k \in 1..Len(completion) |-> futures[completion[k]].logs])

\* the raw lines at the end of the log, before its last line
LastGroupLines(n) == [k \in 1..n |-> log[Len(log) - 1 - n + k].raw]

GroupJustEnded == pc = "source" /\ si > 1

\* C10: when a group has ended, its lines are at the end of the log in
\* lexicographic order, written by the controller and followed by the
\* "Finished dict" line; they are the lines of all the jobs of the group,
\* the same sequence whatever the order in which the jobs ended, and
\* sorting them again changes nothing.
C10_SortedGroupLog ==
    GroupJustEnded
        => LET n == Len(all_logs)
               seg == LastGroupLines(n)
           IN  /\ Len(log) > n
               /\ log[Len(log)].msg = "Finished dict"
               /\ \A k \in 1..n :
                    /\ log[Len(log) - 1 - n + k].by = CTRL
                    /\ log[Len(log) - 1 - n + k].label = ""
               /\ IsSorted(seg)
               /\ Len(completion) = Len(futures)
               /\ Len(ByCompletion) = n
               /\ \A k \in 1..n :
                    Cardinality({m \in 1..n : seg[m] = seg[k]})
                        = Cardinality({m \in 1..n : ByCompletion[m] = seg[k]})
               /\ seg = sorted(ByCompletion)
               /\ sorted(seg) = seg

C10_Witness ==
    /\ GroupJustEnded
    /\ completion = <<2, 1>>
    /\ Len(all_logs) >= 2
    /\ ~IsSorted(all_logs)
    /\ ByCompletion # all_logs


\* C11 (as stated): every line of the log of the run is written by the
\* controller thread; no pool thread appends to the log.
C11_Original ==
    \A k \in 1..Len(log) : log[k].by # WORKER

\* the lines of the jobs of the group, in the order of targets
JobLines == Concat([i \in 1..Len(futures) |-> futures[i].logs])

InLog(line) == \E k \in 1..Len(log) : log[k].label = "" /\ log[k].raw = line

\* C12 (as stated): when the run has aborted on a failed build job, the
\* retained lines of every job that ended successfully, those of the group
\* of the failure included, are in the log.
C12_Original ==
    (pc = "aborted" /\ Failed # {})
        => \A i \in 1..Len(futures) :
             futures[i].st = "done"
                 => \A n \in 1..Len(futures[i].logs) : InLog(futures[i].logs[n])

\* the last line of the log written by the controller
LastCtrl ==
    CHOOSE k \in 1..Len(log) :
        log[k].by = CTRL /\ \A j \in (k + 1)..Len(log) : log[j].by # CTRL

ErrLabels == {"[err]", "[err-stdout]", "[err-stderr]"}

\* C12 (amended): the lines of a group are written when the group ends,
\* all of them, sorted, and lines once written stay in the log; while a
\* group runs only the [err] lines of its failed jobs are written. So when
\* the run has aborted on a failed build job, the log holds the lines of
\* the groups that ended before, and after the last line of the controller
\* nothing but the three [err] lines of each failed job: the retained lines
\* of the jobs of that group that ended successfully are not in the log.
C12_LogAtAbort ==
    /\ []((pc \in {"shutdown", "aborted"} /\ Failed # {})
            => /\ log[LastCtrl].msg \in {"Making dictionaries...", "Finished dict"}
               /\ \A j \in (LastCtrl + 1)..Len(log) :
                    log[j].by = WORKER /\ log[j].label \in ErrLabels
               /\ Len(log) - LastCtrl = 3 * Cardinality(Failed))
    /\ [][(pc = "map" /\ pc' = "source")
            => log' = log \o RawEntries(CTRL, sorted(JobLines))
                          \o <<Entry(CTRL, dict_ty, "Finished dict", <<Code(source)>>)>>]_vars
    /\ [][(pc \in {"map", "shutdown"} /\ pc' # "source")
            => \/ log' = log
               \/ \E i \in Running : log' = log \o ErrEntries(WORKER, futures[i].inv)]_vars
    /\ [][(pc \notin {"start", "clear"}) => IsPrefix(log, log')]_vars

C12_Witness ==
    /\ pc = "aborted"
    /\ Failed # {}
    /\ si > 1
    /\ \E i \in 1..Len(futures) :
         /\ futures[i].st = "done"
         /\ futures[i].logs # <<>>
         /\ ~InLog(futures[i].logs[1])


\* the futures of the current group belong to dictionary type ty
InGroup(ty) == pc \in {"map", "shutdown"} /\ dict_ty = ty

\* C13: for glossary no tool run is ever begun for a pair with
\* source = target: the worker of such a pair ends at once with no lines,
\* never fails, and neither a command line nor an [err] line of such a pair
\* is in the log.
C13_GlossaryDiagonal ==
    /\ \A k \in 1..Len(started) :
         ~(started[k].cmd_name = "glossary" /\ started[k].source = started[k].target)
    /\ ~(proc.cmd_name = "glossary" /\ proc.source = proc.target)
    /\ \A k \in 1..Len(log), s \in Isos : log[k].raw # cmd("glossary", <<s, s>>)
    /\ InGroup("glossary")
         => \A i \in 1..Len(futures) :
              targets[i] = source
                  => /\ futures[i].st \in {"pending", "done", "cancelled"}
                     /\ futures[i].logs = <<>>
                     /\ futures[i].inv = NoInvocation

C13_Witness ==
    /\ InGroup("glossary")
    /\ \E i \in 1..Len(futures) : targets[i] = source /\ futures[i].st = "done"
    /\ \E i \in 1..Len(futures) : targets[i] # source /\ futures[i].st = "done"
                                   /\ futures[i].inv # NoInvocation


\* the isos of the catalog records at the positions idx, in catalog order
Pick(idx) ==
    [k \in 1..Cardinality(idx) |->
        langs[CHOOSE i \in idx : Cardinality({j \in idx : j <= i}) = k].iso]

Records == 1..Len(langs)

Editions == {i \in Records : langs[i].has_edition}

\* C14 (as stated): for main the sources are the catalog languages with
\* hasEdition; the targets of source "simple" are ["simple"], those of any
\* other source are all languages of the catalog.
C14_Original ==
    InGroup("main")
        => /\ sources("main") = Pick(Editions)
           /\ source = Pick(Editions)[si]
           /\ targets = IF source = "simple" THEN <<"simple">> ELSE Pick(Records)

\* C14 (amended): for main the sources are the catalog languages with
\* hasEdition, in catalog order; the targets of source "simple" are
\* ["simple"], those of any other source are the catalog languages other
\* than "simple", in catalog order.
C14_MainPlan ==
    InGroup("main")
        => /\ sources("main") = Pick(Editions)
           /\ source = Pick(Editions)[si]
           /\ targets = IF source = "simple" THEN <<"simple">>
                        ELSE Pick({i \in Records : langs[i].iso # "simple"})

C14_Witness ==
    /\ InGroup("main")
    /\ source # "simple"
    /\ \E i \in Records : langs[i].iso = "simple"
    /\ \E i \in 1..Len(futures) : futures[i].st = "done"


\* C15: for ipa and glossary the sources are the catalog languages with
\* hasEdition other than "simple" and the targets of every source are the
\* catalog languages other than "simple"; no ipa or glossary tool run has
\* "simple" as its source or its target.
C15_NoSimple ==
    /\ \A ty \in {"ipa", "glossary"} :
         InGroup(ty)
             => /\ sources(ty) = Pick({i \in Editions : langs[i].iso # "simple"})
                /\ source = Pick({i \in Editions : langs[i].iso # "simple"})[si]
                /\ targets = Pick({i \in Records : langs[i].iso # "simple"})
    /\ \A k \in 1..Len(started) :
         started[k].cmd_name \in {"ipa", "glossary"}
             => started[k].source # "simple" /\ started[k].target # "simple"

C15_Witness ==
    /\ InGroup("ipa")
    /\ \E i \in Editions : langs[i].iso = "simple"
    /\ \E k \in 1..Len(started) : started[k].cmd_name = "ipa"


IsMerged(inv) == inv.cmd_name = "ipa-merged"

Positional(inv) ==
    IF inv.cmd_name \in {"main", "ipa"} THEN <<inv.target, inv.source>>
    ELSE IF inv.cmd_name = "glossary" THEN <<inv.source, inv.target>>
    ELSE <<inv.source>>

\* the command line the claim gives to a job
CommandLine(inv) ==
    <<Code(BINARY_PATH), Code(inv.cmd_name)>> \o Codes(Positional(inv))
        \o <<Code("--root-dir")>>

\* C17: the positional parameters of a build job are [target, source] for
\* main and ipa, [source, target] for glossary and [source] for ipa-merged,
\* and the root-directory flag follows them; so a failed main or ipa run is
\* swallowed exactly when the source of the job is "en".
C17_Params ==
    /\ \A k \in 1..Len(started) :
         started[k].cmd_name \in BuildTypes
             => started[k].params = Positional(started[k])
    /\ proc.cmd_name \in BuildTypes
         => /\ proc.params = Positional(proc)
            /\ proc.errlog # <<>> => proc.errlog[1].raw = CommandLine(proc)
            /\ (proc.cmd_name \in {"main", "ipa"} /\ proc.returncode # 0)
                 => (proc.raise <=> proc.source # "en")
    /\ (pc \in {"map", "shutdown"} /\ args.dry_run)
         => \A i \in 1..Len(futures) :
              (futures[i].st = "done" /\ ~(dict_ty = "glossary" /\ targets[i] = source))
                  => futures[i].logs =
                       <<CommandLine(Invocation(dict_ty, <<>>, source, targets[i]))>>

C17_Witness ==
    /\ proc.cmd_name = "main"
    /\ proc.source = "en"
    /\ proc.target = "el"
    /\ proc.returncode # 0
    /\ ~proc.raise


IsBuild(inv) == inv.cmd_name \in BuildTypes

SameJob(a, b) ==
    a.cmd_name = b.cmd_name /\ a.source = b.source /\ a.target = b.target

\* the number of catalog records with this iso
Occurrences(iso) == Cardinality({i \in Records : langs[i].iso = iso})

\* C18 (as stated): no two tool runs of build jobs begun in one run have
\* the same (dictionary type, source, target), whatever the catalog.
C18_Original ==
    \A j, k \in 1..Len(started) :
        (j < k /\ IsBuild(started[j])) => ~SameJob(started[j], started[k])

\* C18 (amended): a job (dictionary type, source, target) is run at most
\* once per pair of catalog records that carry its source and its target:
\* never twice when the isos of the catalog are pairwise distinct, and two
\* runs of the same job can be in flight together only for a catalog that
\* lists an iso twice.
C18_DistinctJobs ==
    /\ \A k \in 1..Len(started) :
         IsBuild(started[k])
             => Cardinality({j \in 1..Len(started) : SameJob(started[j], started[k])})
                  <= Occurrences(started[k].source)
                       * (IF started[k].target = "__target" THEN 1
                          ELSE Occurrences(started[k].target))
    /\ (\A a, b \in Records : a # b => langs[a].iso # langs[b].iso)
         => \A j, k \in 1..Len(started) :
              (j < k /\ IsBuild(started[j])) => ~SameJob(started[j], started[k])
    /\ \A i, j \in Running :
         (i # j /\ SameJob(futures[i].inv, futures[j].inv))
             => Occurrences(futures[i].inv.target) >= 2

C18_Witness ==
    /\ \A a, b \in Records : a # b => langs[a].iso # langs[b].iso
    /\ Cardinality(Running) = 2
    /\ Len(SelectSeq(started, IsBuild)) >= 4


LoaderErrors == {"FileNotFoundError", "JSONDecodeError", "KeyError"}

\* the file cannot be read, or a row lacks a key load_lang subscripts
Unloadable(f) ==
    \/ f.file \in {"missing", "invalid"}
    \/ \E i \in 1..Len(f.rows) : f.rows[i].iso = Absent \/ f.rows[i].language = Absent

\* two rows of the file carry the same iso
RepeatedIso(f) ==
    \E i, j \in 1..Len(f.rows) :
        i # j /\ f.rows[i].iso # Absent /\ f.rows[i].iso = f.rows[j].iso

\* the load ends the run with an error of the loader, log and tool untouched
LoadFails ==
    /\ pc' = "aborted"
    /\ err' \in LoaderErrors
    /\ log' = log
    /\ started' = started

\* C19 (as stated): loading the catalog fails, before the log is cleared
\* and before any tool run, when the file is missing, a row lacks a
\* required field, or two rows carry the same iso.
C19_Original ==
    [][(pc = "load" /\ (Unloadable(languages_json) \/ RepeatedIso(languages_json)))
          => LoadFails]_vars

\* C19 (amended): loading the catalog fails, before the log is cleared and
\* before any tool run, exactly when the file is missing, is no JSON, or a
\* row lacks a required field (hasEdition is not required: a row without it
\* has no edition); rows that carry the same iso are all loaded, in file
\* order.
C19_LoadFails ==
    /\ [][pc = "load"
            => IF Unloadable(languages_json)
               THEN LoadFails
               ELSE /\ pc' = "start"
                    /\ err' = "none"
                    /\ langs' \in Catalogs
                    /\ Len(langs') = Len(languages_json.rows)
                    /\ \A i \in 1..Len(langs') :
                         /\ langs'[i].iso = languages_json.rows[i].iso
                         /\ langs'[i].has_edition
                              <=> languages_json.rows[i].hasEdition = "true"]_vars
    /\ [](err \in LoaderErrors
            => pc = "aborted" /\ started = <<>> /\ log \in {<<>>, PreviousLog})

C19_Witness ==
    /\ pc = "aborted"
    /\ err = "KeyError"
    /\ log = PreviousLog
    /\ started = <<>>


\* the artifact files of a dictionary type, whatever the job that wrote them
OfType(name, ty) ==
    \E s \in Isos, t \in Isos \cup {"__target"} : name = ArtifactName(ty, s, t)

\* a dictionary type has just ended: its statistics are in total_size
TypeJustEnded == pc = "type" /\ ti > 1

\* C20 (as stated): the statistics logged when a dictionary type ends sum
\* exactly the files of that type under the release directory, every file
\* written by a job of the type and no file of another type, whichever
\* source was processed last.
C20_Original ==
    TypeJustEnded
        => total_size = human_size(SumSizes({f \in files : OfType(f, matrix[ti - 1])}))


\* the run has ended
RunEnded == pc \in {"exit", "aborted"}

\* the controller has passed the clearing of the log (a run that ended in
\* parse_args or in the loader has not)
Cleared ==
    /\ pc \notin {"parse", "load", "start", "clear"}
    /\ err \notin {"SystemExit(2)", "FileNotFoundError", "JSONDecodeError", "KeyError"}

NoPreviousLine == \A k \in 1..Len(log) : log[k].by # "previous run"

\* C21 (as stated): the log is cleared at the start of the run and only
\* appended to afterwards, and when the run has ended it holds no line of a
\* previous run.
C21_Original ==
    /\ [][Cleared => IsPrefix(log, log')]_vars
    /\ [](RunEnded => NoPreviousLine)

\* C21 (amended): the clearing empties the log; after it the log is only
\* appended to, and holds no line of a previous run, up to the end of the
\* run. A run that ends in parse_args or in the loader never reaches the
\* clearing and leaves the log as the previous run left it.
C21_ClearedThenAppendOnly ==
    /\ [][pc = "clear" => log' = <<>>]_vars
    /\ [][Cleared => IsPrefix(log, log')]_vars
    /\ [](Cleared => NoPreviousLine)
    /\ [][(pc \in {"parse", "load"}) => (log' = log)]_vars

C21_Witness ==
    /\ pc = "exit"
    /\ NoPreviousLine
    /\ Len(log) > 10
    /\ started # <<>>


\* the command lines of the downloads, in the order of the editions
DryDownloadLines ==
    [i \in 1..Cardinality(Editions) |->
        <<Code(BINARY_PATH), Code("download"), Code(Pick(Editions)[i]),
          Code(Pick(Editions)[i]), Code("--root-dir")>>]

\* the lines of the log that carry a command line of a download
DownloadCommands ==
    LET IsCommand(e) ==
            e.label = "" /\ Len(e.raw) > 1 /\ e.raw[2] = Code("download")
        es == SelectSeq(log, IsCommand)
    IN  [i \in 1..Len(es) |-> es[i].raw]

IsArtifactLine(line) == \E i \in 1..Len(line) : line[i] = Code("Wrote yomitan dict")

\* the line reports the progress of a download
IsDownloadLine(line) ==
    \E i \in 1..Len(line) : line[i] \in {Code("Downloading"), Code("download")}

\* the lines the filter keeps of the output of the tool run in proc
Filtered ==
    LET Keep(line) ==
            IsArtifactLine(line) \/ (proc.cmd_name = "download" /\ IsDownloadLine(line))
    IN  SelectSeq(ToolStdout(proc.cmd_name, proc.params), Keep)

\* a tool run has ended with exit code 0
Succeeded == proc # NoProc /\ proc.returncode = 0

\* C23 (as stated): of a successful tool run the lines that signal an
\* artifact, and the download lines when they are requested, are retained
\* and no other, unless -vv asks for every line, and then all are retained.
C23_Original ==
    Succeeded
        => proc.logs = IF args.verbose = 2 THEN ToolStdout(proc.cmd_name, proc.params)
                       ELSE Filtered

\* C23 (amended): of a successful tool run, with -v the lines that signal
\* an artifact, and the download lines when they are requested, are
\* retained and no other; with -vv every line is retained; without -v, and
\* with -vvv or more, no line is retained.
C23_Retained ==
    Succeeded
        => proc.logs = CASE args.verbose = 1 -> Filtered
                         [] args.verbose = 2 -> ToolStdout(proc.cmd_name, proc.params)
                         [] OTHER -> <<>>

C23_Witness ==
    /\ Succeeded
    /\ args.verbose = 0
    /\ proc.cmd_name = "main"
    /\ proc.logs = <<>>
    /\ Filtered # <<>>


\* the plan and the tool runs are those of the filter of the command line
Restricted ==
    /\ args # NoArgs
         => matrix = IF argv.dictionary_type = "None"
                     THEN <<"main", "ipa", "glossary", "ipa-merged">>
                     ELSE <<argv.dictionary_type>>
    /\ argv.dictionary_type # "None"
         => \A k \in 1..Len(started) :
              IsBuild(started[k]) => started[k].cmd_name = argv.dictionary_type

\* C24 (as stated): the build can be restricted to any one of main, ipa,
\* ipa-merged and glossary: the command line is accepted, the plan has the
\* one entry of the filter, and every build job has its type; without a
\* filter the plan has the four types.
C24_Original ==
    /\ pc # "parse" => (err # "SystemExit(2)" /\ args # NoArgs)
    /\ Restricted


\* the lines run_matrix logs before any work: worker count, arguments and
\* the two reports of previous files
PreambleLines == {"n_workers", "args", "previous files", "previous zip files"}

\* C25 (as stated): the lines logged before any work begins are in the log
\* when the run has ended.
C25_Original ==
    (pc = "exit" \/ (pc = "aborted" /\ Cleared))
        => \A m \in PreambleLines :
             \E k \in 1..Len(log) : log[k].label = "info" /\ log[k].msg = m


\* the phase of the current dictionary type has no source
EmptyPhase == pc = "source" /\ sources(dict_ty) = <<>>

\* C26 (as stated): a dictionary type without sources dispatches no job,
\* ends normally with statistics built from its own (empty) sources and
\* targets, and the run goes on to the next type; it never fails.
C26_Original ==
    [][EmptyPhase
         => /\ pc' = "type"
            /\ ti' = ti + 1
            /\ err' = "none"
            /\ started' = started
            /\ total_size' = stats(pattern(dict_ty, <<>>, <<>>), "").size]_vars


Finished == \E k \in 1..Len(log) : log[k].by = CTRL /\ log[k].msg = "Finished!"

\* C27: when every run of the tool ends, the run ends: with the
\* "Finished!" line after every selected type was processed, or aborted by
\* an error; and whenever run_matrix has been left no pool thread is
\* running and no work item is waiting.
C27_Terminates ==
    /\ <>RunEnded
    /\ [](RunEnded => (pc = "aborted" <=> ~Finished))
    /\ [](pc \in {"indexes", "exit"} => (Finished /\ ti = Len(matrix) + 1))
    /\ [](pc = "aborted" => err # "none")
    /\ []((pc \in {"indexes", "exit", "aborted"}) => (Running = {} /\ Pending = {}))

C27_Witness ==
    /\ pc = "exit"
    /\ Finished
    /\ Len(SelectSeq(started, IsBuild)) >= 4
    /\ \E i \in 1..Len(futures) : futures[i].st = "done"

====
